---- MODULE Spec2Model ----
(***************************************************************************)
(* Model of the command layer of ensi-local-ctl (elc): the home-config     *)
(* store (workspace registry persisted as one YAML document) and the       *)
(* service commands that resolve a target and dispatch lifecycle calls.    *)
(*                                                                         *)
(* One command invocation is one action.  The process is single-threaded   *)
(* and exits after the command, so the only state that survives between   *)
(* commands is on disk: the home document and the workspace manifest.     *)
(* The other variables record what the running command did: the WriteFile *)
(* calls it made, the service method calls it issued and the error it     *)
(* returned; they are discarded when the process exits.                   *)
(***************************************************************************)
EXTENDS Integers, Sequences, FiniteSets, TLC

VARIABLES
    manifest,     \* the manifest file of the current workspace (never written)
    fileExists,   \* Pc.FileExists(homeConfigPath)
    doc,          \* content of the home document (meaningful when fileExists)
    cmd,          \* the last command and its inputs
    writes,       \* Pc.WriteFile calls of the last command, in order
    calls,        \* service method calls of the last command, in order
    err           \* error returned by the last command ("" is nil)

vars == <<manifest, fileExists, doc, cmd, writes, calls, err>>

(***************************************************************************)
(* Bounds                                                                  *)
(***************************************************************************)
\* longest list of explicit names given to start/stop/restart/destroy
MaxArgs == 3
\* number of distinct non-empty workspace names the operator may type
MaxNames == 2

(***************************************************************************)
(* Input domains                                                           *)
(***************************************************************************)
\* workspace names: the empty string is a legal command-line argument
WsNames == {""} \cup {"w" \o ToString(i) : i \in 1..MaxNames}
WsPaths == {"/p", "/q"}
\* The one fault of the environment during a command.  Every command returns
\* at its first error, so a second fault would never be observed.
\*   "write1".."write3": that WriteFile call of the command is rejected
\*   "read": ReadFile of the home document fails
\*   "manifest": the manifest does not load or fails its version check
\*   a service name: the container engine fails the action on that service
HomeFaults == {"none", "write1", "write2", "write3", "read"}
SvcFaults == {"none", "write1", "read", "manifest", "web", "worker", "db"}
FailAt(fault) ==
    IF fault = "write1" THEN 1 ELSE IF fault = "write2" THEN 2
    ELSE IF fault = "write3" THEN 3 ELSE 0

(***************************************************************************)
(* Home config (HomeConfig, HomeConfigItem)                                *)
(***************************************************************************)
defaultUpdateCommand ==
    "curl -sSL https://raw.githubusercontent.com/MadridianFox/ensi-local-ctl/master/get.sh | sudo bash"

HomeConfigItem(name, path) == [name |-> name, path |-> path]

\* The serialised fields of HomeConfig; Path is yaml:"-" and is restored
\* from the argument by LoadHomeConfig.
HomeConfig(cur, upd, wss) ==
    [current_workspace |-> cur, update_command |-> upd, workspaces |-> wss]

\* the zero value of HomeConfig
EmptyHomeConfig == HomeConfig("", "", <<>>)

\* The file system as one command sees it, threaded through its steps.
Disk == [exists |-> fileExists, doc |-> doc, writes |-> <<>>, err |-> ""]

\* SaveHomeConfig: marshal and WriteFile.  A rejected write returns the error
\* and leaves the file as it was.
SaveHomeConfig(st, hc, failAt) ==
    LET ok == (Len(st.writes) + 1) # failAt
    IN  [exists |-> st.exists \/ ok,
         doc    |-> IF ok THEN hc ELSE st.doc,
         writes |-> Append(st.writes, [data |-> hc, ok |-> ok]),
         err    |-> IF ok THEN "" ELSE "write failed"]

\* variant: the existence check is missing, the default document is always
\* written
CheckHomeConfigIsEmpty_Always(st, failAt) ==
    SaveHomeConfig(st, HomeConfig("", defaultUpdateCommand, <<>>), failAt)

\* CheckHomeConfigIsEmpty: write the default document only when none exists.
CheckHomeConfigIsEmpty(st, failAt) ==
    IF st.exists THEN [st EXCEPT !.err = ""]
    ELSE SaveHomeConfig(st, HomeConfig("", defaultUpdateCommand, <<>>), failAt)

\* LoadHomeConfig: ReadFile and unmarshal.
LoadHomeConfig(st, readOk) ==
    IF st.exists /\ readOk THEN [hc |-> st.doc, err |-> ""]
    ELSE [hc |-> EmptyHomeConfig, err |-> "read failed"]

\* checkAndLoadHC: the initialisation step followed by the load.
checkAndLoadHC(st, failAt, readOk) ==
    LET s1 == CheckHomeConfigIsEmpty(st, failAt)
        ld == LoadHomeConfig(s1, readOk)
    IN  IF s1.err # "" THEN [st |-> s1, hc |-> EmptyHomeConfig]
        ELSE [st |-> [s1 EXCEPT !.err = ld.err], hc |-> ld.hc]

\* variant: the loop compares the path instead of the name
findWorkspace_ByPath(hc, name) ==
    \E i \in DOMAIN hc.workspaces : hc.workspaces[i].path = name

\* HomeConfig.findWorkspace: TRUE when the result is not nil.
findWorkspace(hc, name) ==
    \E i \in DOMAIN hc.workspaces : hc.workspaces[i].name = name

\* variant: the append is not saved
AddWorkspace_NoSave(st, hc, name, path, failAt) ==
    [st |-> [st EXCEPT !.err = ""],
     hc |-> [hc EXCEPT !.workspaces = Append(@, HomeConfigItem(name, path))]]

\* HomeConfig.AddWorkspace: append in memory, then save.
AddWorkspace(st, hc, name, path, failAt) ==
    LET hc2 == [hc EXCEPT !.workspaces = Append(@, HomeConfigItem(name, path))]
    IN  [st |-> SaveHomeConfig(st, hc2, failAt), hc |-> hc2]

\* HomeConfig.GetCurrentWsPath
GetCurrentWsPath(hc) ==
    IF hc.current_workspace = ""
    THEN [path |-> "", err |-> "current workspace is not set"]
    ELSE IF findWorkspace(hc, hc.current_workspace)
    THEN LET i == CHOOSE j \in DOMAIN hc.workspaces :
                    /\ hc.workspaces[j].name = hc.current_workspace
                    /\ \A k \in 1..(j - 1) :
                          hc.workspaces[k].name # hc.current_workspace
         IN  [path |-> hc.workspaces[i].path, err |-> ""]
    ELSE [path |-> "", err |-> "current workspace is bad"]

(***************************************************************************)
(* Workspace commands                                                      *)
(***************************************************************************)
\* variant: the added workspace is selected whether or not one is current
CmdWorkspaceAdd_AlwaysSelect(st, args, failAt, readOk) ==
    LET ld == checkAndLoadHC(st, failAt, readOk)
    IN  IF ld.st.err # "" THEN ld.st
        ELSE IF Len(args) # 2
        THEN [ld.st EXCEPT !.err = "command requires exactly 2 arguments"]
        ELSE IF findWorkspace(ld.hc, args[1])
        THEN [ld.st EXCEPT !.err = "workspace already exists"]
        ELSE LET ad == AddWorkspace(ld.st, ld.hc, args[1], args[2], failAt)
             IN  IF ad.st.err # "" THEN ad.st
                 ELSE SaveHomeConfig(ad.st,
                          [ad.hc EXCEPT !.current_workspace = args[1]], failAt)

\* CmdWorkspaceAdd
CmdWorkspaceAdd(st, args, failAt, readOk) ==
    LET ld == checkAndLoadHC(st, failAt, readOk)
    IN  IF ld.st.err # "" THEN ld.st
        ELSE IF Len(args) # 2
        THEN [ld.st EXCEPT !.err = "command requires exactly 2 arguments"]
        ELSE IF findWorkspace(ld.hc, args[1])
        THEN [ld.st EXCEPT !.err = "workspace already exists"]
        ELSE LET ad == AddWorkspace(ld.st, ld.hc, args[1], args[2], failAt)
             IN  IF ad.st.err # "" THEN ad.st
                 ELSE IF ad.hc.current_workspace = ""
                 THEN SaveHomeConfig(ad.st,
                          [ad.hc EXCEPT !.current_workspace = args[1]], failAt)
                 ELSE ad.st

\* variant: the name is not looked up before it is selected
CmdWorkspaceSelect_NoCheck(st, args, failAt, readOk) ==
    LET ld == checkAndLoadHC(st, failAt, readOk)
    IN  IF ld.st.err # "" THEN ld.st
        ELSE IF Len(args) # 1
        THEN [ld.st EXCEPT !.err = "command requires exactly 1 argument"]
        ELSE SaveHomeConfig(ld.st,
                 [ld.hc EXCEPT !.current_workspace = args[1]], failAt)

\* variant: the document is saved without the assignment of the name
CmdWorkspaceSelect_KeepCurrent(st, args, failAt, readOk) ==
    LET ld == checkAndLoadHC(st, failAt, readOk)
    IN  IF ld.st.err # "" THEN ld.st
        ELSE IF Len(args) # 1
        THEN [ld.st EXCEPT !.err = "command requires exactly 1 argument"]
        ELSE IF ~findWorkspace(ld.hc, args[1])
        THEN [ld.st EXCEPT !.err = "workspace is not defined"]
        ELSE SaveHomeConfig(ld.st, ld.hc, failAt)

\* CmdWorkspaceSelect
CmdWorkspaceSelect(st, args, failAt, readOk) ==
    LET ld == checkAndLoadHC(st, failAt, readOk)
    IN  IF ld.st.err # "" THEN ld.st
        ELSE IF Len(args) # 1
        THEN [ld.st EXCEPT !.err = "command requires exactly 1 argument"]
        ELSE IF ~findWorkspace(ld.hc, args[1])
        THEN [ld.st EXCEPT !.err = "workspace is not defined"]
        ELSE SaveHomeConfig(ld.st,
                 [ld.hc EXCEPT !.current_workspace = args[1]], failAt)

\* CmdWorkspaceList: initialise, load, print the workspaces.
CmdWorkspaceList(st, failAt, readOk) == checkAndLoadHC(st, failAt, readOk).st

\* CmdWorkspaceShow: initialise, load, print the current workspace.
CmdWorkspaceShow(st, failAt, readOk) == checkAndLoadHC(st, failAt, readOk).st

\* CmdUpdate: initialise, load, run the update command.
CmdUpdate(st, failAt, readOk) ==
    LET ld == checkAndLoadHC(st, failAt, readOk)
    IN  [st |-> ld.st,
         calls |-> IF ld.st.err # "" THEN <<>>
                   ELSE << [method |-> "ExecInteractive", svc |-> ld.hc.update_command,
                            ok |-> TRUE] >>]

\* argument lists the operator may give to add and select
AddArgs == {<<n>> : n \in WsNames} \cup {<<n, p>> : n \in WsNames, p \in WsPaths}
SelectArgs == {<<>>} \cup {<<n>> : n \in WsNames}

\* no command is running
Idle == cmd.op = "none"

\* the effect of a command on the variables
Commit(r, c) ==
    /\ fileExists' = r.exists
    /\ doc' = r.doc
    /\ writes' = r.writes
    /\ err' = r.err
    /\ cmd' = c
    /\ UNCHANGED manifest

WorkspaceAdd ==
    Idle /\ \E args \in AddArgs, fault \in HomeFaults :
        /\ Commit(CmdWorkspaceAdd(Disk, args, FailAt(fault), fault # "read"),
                  [op |-> "workspace add", args |-> args])
        /\ calls' = <<>>

WorkspaceSelect ==
    Idle /\ \E args \in SelectArgs, fault \in HomeFaults :
        /\ Commit(CmdWorkspaceSelect(Disk, args, FailAt(fault), fault # "read"),
                  [op |-> "workspace select", args |-> args])
        /\ calls' = <<>>

WorkspaceList ==
    Idle /\ \E fault \in HomeFaults :
        /\ Commit(CmdWorkspaceList(Disk, FailAt(fault), fault # "read"),
                  [op |-> "workspace list", args |-> <<>>])
        /\ calls' = <<>>

WorkspaceShow ==
    Idle /\ \E fault \in HomeFaults :
        /\ Commit(CmdWorkspaceShow(Disk, FailAt(fault), fault # "read"),
                  [op |-> "workspace show", args |-> <<>>])
        /\ calls' = <<>>

Update ==
    Idle /\ \E fault \in HomeFaults :
        LET r == CmdUpdate(Disk, FailAt(fault), fault # "read")
        IN  /\ Commit(r.st, [op |-> "update", args |-> <<>>])
            /\ calls' = r.calls

\* the process exits: what it held in memory is gone
Exit ==
    /\ ~Idle
    /\ cmd' = [op |-> "none", args |-> <<>>]
    /\ writes' = <<>>
    /\ calls' = <<>>
    /\ err' = ""
    /\ UNCHANGED <<manifest, fileExists, doc>>

(***************************************************************************)
(* Workspace manifest (MainConfig): services in declaration order, modules *)
(* bound to a hosting service.  Paths are sequences of segments.           *)
(***************************************************************************)
ServiceDef(name, path, deps) == [name |-> name, path |-> path, dependsOn |-> deps]
ModuleDef(name, host, execPath) == [name |-> name, hostedIn |-> host, execPath |-> execPath]

\* the scenario of the design: web, worker, db with dependency edges, a module
\* whose exec path lies inside another service's root, and a module whose
\* exec path uses a variable
ManifestFull ==
    [services |-> << ServiceDef("web", <<"srv", "web">>, <<"db">>),
                     ServiceDef("worker", <<"srv", "worker">>, <<"web">>),
                     ServiceDef("db", <<"srv", "db">>, <<>>) >>,
     modules  |-> << ModuleDef("api-cli", "web", <<"srv", "worker", "bin">>),
                     ModuleDef("tool", "db", <<"${WORKSPACE_PATH}", "tools">>) >>]

\* the dependency declared before its dependent
ManifestReordered ==
    [services |-> << ServiceDef("db", <<"srv", "db">>, <<>>),
                     ServiceDef("web", <<"srv", "web">>, <<"db">>) >>,
     modules  |-> << ModuleDef("api-cli", "db", <<"opt", "cli">>) >>]

ManifestEmpty == [services |-> <<>>, modules |-> <<>>]

Manifests == {ManifestFull, ManifestReordered, ManifestEmpty}

Cwds == { <<"srv", "web">>, <<"srv", "worker", "bin">>, <<"home">> }

\* names the operator may type for a service or a module
SvcTokens == {"web", "worker", "db", "nosvc"}
ExecTargets == {"", "web", "api-cli", "tool", "nosvc"}

\* the sequences over S of length at most n
SeqsUpTo(S, n) == UNION {[1..k -> S] : k \in 0..n}

IsPrefix(p, q) == Len(p) <= Len(q) /\ \A i \in DOMAIN p : p[i] = q[i]

\* MainConfig.GetAllSvcNames: every service name, in declaration order
GetAllSvcNames(cfg) == [i \in DOMAIN cfg.services |-> cfg.services[i].name]

HasService(cfg, name) == \E i \in DOMAIN cfg.services : cfg.services[i].name = name

\* longest declared path that is an ancestor of (or equal to) cwd; a tie is
\* an error
LongestMatch(paths, cwd) ==
    LET hits == {i \in DOMAIN paths : IsPrefix(paths[i], cwd)}
        best == {i \in hits : \A j \in hits : Len(paths[j]) <= Len(paths[i])}
    IN  IF hits = {} THEN [idx |-> 0, err |-> "not found"]
        ELSE IF Cardinality(best) > 1 THEN [idx |-> 0, err |-> "ambiguous"]
        ELSE [idx |-> CHOOSE i \in best : TRUE, err |-> ""]

SvcPaths(cfg) == [i \in DOMAIN cfg.services |-> cfg.services[i].path]
MdlPaths(cfg) == [i \in DOMAIN cfg.modules |-> cfg.modules[i].execPath]

\* MainConfig.FindServiceByPath
FindServiceByPath(cfg, cwd) ==
    LET m == LongestMatch(SvcPaths(cfg), cwd)
    IN  IF m.err # "" THEN [name |-> "", err |-> m.err]
        ELSE [name |-> cfg.services[m.idx].name, err |-> ""]

\* the nil *ModuleConfig
NilModule == [isNil |-> TRUE, name |-> "", hostedIn |-> "", execPath |-> <<>>]
ModulePtr(m) == [isNil |-> FALSE, name |-> m.name, hostedIn |-> m.hostedIn, execPath |-> m.execPath]

\* MainConfig.FindModuleByPath
FindModuleByPath(cfg, cwd) ==
    LET m == LongestMatch(MdlPaths(cfg), cwd)
    IN  IF m.err # "" THEN [mdl |-> NilModule, err |-> m.err]
        ELSE [mdl |-> ModulePtr(cfg.modules[m.idx]), err |-> ""]

\* MainConfig.FindModuleByName
FindModuleByName(cfg, name) ==
    LET hits == {i \in DOMAIN cfg.modules : cfg.modules[i].name = name}
    IN  IF hits = {} THEN [mdl |-> NilModule, err |-> "module not found"]
        ELSE [mdl |-> ModulePtr(cfg.modules[CHOOSE i \in hits : TRUE]), err |-> ""]

\* MainConfig.renderPath: substitute the variables of a path
renderPath(path) ==
    [i \in DOMAIN path |-> IF path[i] = "${WORKSPACE_PATH}" THEN "ws" ELSE path[i]]

\* CreateFromSvcName: fails for a name that is not a service of the manifest
CreateFromSvcName(cfg, name) ==
    IF HasService(cfg, name) THEN "" ELSE "service not found"

\* getWorkspaceConfig: initialise and load the home document, take the
\* current workspace's path, load the manifest and check its version.
getWorkspaceConfig(st, failAt, readOk, loadOk) ==
    LET ld == checkAndLoadHC(st, failAt, readOk)
        ws == GetCurrentWsPath(ld.hc)
    IN  IF ld.st.err # "" THEN ld.st
        ELSE IF ws.err # "" THEN [ld.st EXCEPT !.err = ws.err]
        ELSE IF ~loadOk THEN [ld.st EXCEPT !.err = "manifest not loaded"]
        ELSE ld.st

(***************************************************************************)
(* Lifecycle commands                                                      *)
(***************************************************************************)
\* variant: the loop goes on after a failed action and returns its error at
\* the end
RECURSIVE ForEachSvc_Continue(_, _, _, _, _)
ForEachSvc_Continue(cfg, method, svcNames, bad, done) ==
    IF svcNames = <<>>
    THEN [calls |-> done,
          err |-> IF \E i \in DOMAIN done : ~done[i].ok THEN "action failed" ELSE ""]
    ELSE LET svcName == Head(svcNames)
         IN  IF CreateFromSvcName(cfg, svcName) # ""
             THEN [calls |-> done, err |-> CreateFromSvcName(cfg, svcName)]
             ELSE ForEachSvc_Continue(cfg, method, Tail(svcNames), bad,
                      Append(done, [method |-> method, svc |-> svcName,
                                    ok |-> svcName \notin bad]))

\* the loop over svcNames: create the service, run the action, return at
\* the first error.  bad is the set of services whose action fails.
RECURSIVE ForEachSvc(_, _, _, _, _)
ForEachSvc(cfg, method, svcNames, bad, done) ==
    IF svcNames = <<>> THEN [calls |-> done, err |-> ""]
    ELSE LET svcName == Head(svcNames)
         IN  IF CreateFromSvcName(cfg, svcName) # ""
             THEN [calls |-> done, err |-> CreateFromSvcName(cfg, svcName)]
             ELSE LET ok == svcName \notin bad
                      now == Append(done, [method |-> method, svc |-> svcName, ok |-> ok])
                  IN  IF ~ok THEN [calls |-> now, err |-> "action failed"]
                      ELSE ForEachSvc(cfg, method, Tail(svcNames), bad, now)

\* the else branch: the service of the current directory
CurrentDirSvc(cfg, cwd, method, bad) ==
    LET f == FindServiceByPath(cfg, cwd)
    IN  IF f.err # "" THEN [calls |-> <<>>, err |-> f.err]
        ELSE ForEachSvc(cfg, method, <<f.name>>, bad, <<>>)

\* flag.FlagSet.Parse reads flags up to the first non-flag argument: --all is
\* seen as a flag only in front of the names
ParsedAll(args) == args # <<>> /\ Head(args) = "--all"

\* variant: the --all flag is parsed but not used
StopSvcNames_IgnoreAll(cfg, args) == args

\* the target list of stop and destroy
StopSvcNames(cfg, args) ==
    IF ParsedAll(args) THEN GetAllSvcNames(cfg) ELSE args

\* the dispatch shared by the four commands
Dispatch(cfg, cwd, method, svcNames, bad) ==
    IF Len(svcNames) > 0 THEN ForEachSvc(cfg, method, svcNames, bad, <<>>)
    ELSE CurrentDirSvc(cfg, cwd, method, bad)

\* CmdServiceStop and CmdServiceDestroy (method "Stop" / "Destroy")
CmdServiceStop(st, method, args, cfg, cwd, bad, failAt, readOk, loadOk) ==
    LET w == getWorkspaceConfig(st, failAt, readOk, loadOk)
    IN  IF w.err # "" THEN [st |-> w, calls |-> <<>>]
        ELSE LET d == Dispatch(cfg, cwd, method, StopSvcNames(cfg, args), bad)
             IN  [st |-> [w EXCEPT !.err = d.err], calls |-> d.calls]

\* CmdServiceStart and CmdServiceRestart (method "Start" / "Restart"): their
\* flag sets do not define --all, and the names are fs.Args()
CmdServiceStart(st, method, args, cfg, cwd, bad, failAt, readOk, loadOk) ==
    IF ParsedAll(args)
    THEN [st |-> [st EXCEPT !.err = "flag provided but not defined"], calls |-> <<>>]
    ELSE LET w == getWorkspaceConfig(st, failAt, readOk, loadOk)
         IN  IF w.err # "" THEN [st |-> w, calls |-> <<>>]
             ELSE LET d == Dispatch(cfg, cwd, method, args, bad)
                  IN  [st |-> [w EXCEPT !.err = d.err], calls |-> d.calls]

(***************************************************************************)
(* exec                                                                    *)
(***************************************************************************)
\* variant: the path is looked up among the services first, among the
\* modules only when no service matches
ExecResolve_ServiceFirst(cfg, cwd, svcName) ==
    IF svcName = ""
    THEN LET m == FindModuleByPath(cfg, cwd)
             s == FindServiceByPath(cfg, cwd)
         IN  IF s.err = ""
             THEN [svcName |-> s.name, mdl |-> NilModule, err |-> ""]
             ELSE [svcName |-> m.mdl.hostedIn, mdl |-> m.mdl, err |-> m.err]
    ELSE LET m == FindModuleByName(cfg, svcName)
         IN  [svcName |-> IF m.err = "" THEN m.mdl.hostedIn ELSE svcName,
              mdl |-> NilModule, err |-> ""]

\* the resolution of the target: the service name and the module pointer
\* that the working directory is taken from
ExecResolve(cfg, cwd, svcName) ==
    IF svcName = ""
    THEN LET m == FindModuleByPath(cfg, cwd)
             s == FindServiceByPath(cfg, cwd)
         IN  IF m.err = ""
             THEN [svcName |-> m.mdl.hostedIn, mdl |-> m.mdl, err |-> ""]
             ELSE [svcName |-> s.name, mdl |-> m.mdl, err |-> s.err]
    ELSE \* mdl, err := ... declares a new mdl: the outer one stays nil
         LET m == FindModuleByName(cfg, svcName)
         IN  [svcName |-> IF m.err = "" THEN m.mdl.hostedIn ELSE svcName,
              mdl |-> NilModule, err |-> ""]

\* CmdServiceExec
CmdServiceExec(st, svcName, cfg, cwd, bad, failAt, readOk, loadOk) ==
    LET w == getWorkspaceConfig(st, failAt, readOk, loadOk)
        r == ExecResolve(cfg, cwd, svcName)
        workingDir == IF r.mdl.isNil THEN <<>> ELSE renderPath(r.mdl.execPath)
    IN  IF w.err # "" THEN [st |-> w, calls |-> <<>>]
        ELSE IF r.err # "" THEN [st |-> [w EXCEPT !.err = r.err], calls |-> <<>>]
        ELSE IF CreateFromSvcName(cfg, r.svcName) # ""
        THEN [st |-> [w EXCEPT !.err = CreateFromSvcName(cfg, r.svcName)], calls |-> <<>>]
        ELSE LET ok == r.svcName \notin bad
             IN  [st |-> [w EXCEPT !.err = IF ok THEN "" ELSE "action failed"],
                  calls |-> << [method |-> "Exec", svc |-> r.svcName,
                                workingDir |-> workingDir, ok |-> ok] >>]

\* argument lists of the lifecycle commands: up to MaxArgs names or --all
LifecycleArgs == SeqsUpTo(SvcTokens \cup {"--all"}, MaxArgs)

ServiceStart ==
    Idle /\ \E method \in {"Start", "Restart"}, args \in LifecycleArgs, cwd \in Cwds,
       fault \in SvcFaults :
        LET r == CmdServiceStart(Disk, method, args, manifest, cwd, {fault},
                                 FailAt(fault), fault # "read", fault # "manifest")
        IN  /\ Commit(r.st, [op |-> method, args |-> args, cwd |-> cwd])
            /\ calls' = r.calls

ServiceStop ==
    Idle /\ \E method \in {"Stop", "Destroy"}, args \in LifecycleArgs, cwd \in Cwds,
       fault \in SvcFaults :
        LET r == CmdServiceStop(Disk, method, args, manifest, cwd, {fault},
                                FailAt(fault), fault # "read", fault # "manifest")
        IN  /\ Commit(r.st, [op |-> method, args |-> args, cwd |-> cwd])
            /\ calls' = r.calls

ServiceExec ==
    Idle /\ \E svcName \in ExecTargets, cwd \in Cwds, fault \in SvcFaults :
        LET r == CmdServiceExec(Disk, svcName, manifest, cwd, {fault},
                                FailAt(fault), fault # "read", fault # "manifest")
        IN  /\ Commit(r.st, [op |-> "Exec", args |-> <<svcName>>, cwd |-> cwd])
            /\ calls' = r.calls

\* a home document with one registered workspace, selected
OneWorkspace == HomeConfig("w1", defaultUpdateCommand, <<HomeConfigItem("w1", "/p")>>)

Init ==
    /\ manifest = ManifestFull
    /\ fileExists = FALSE
    /\ doc = EmptyHomeConfig
    /\ cmd = [op |-> "none", args |-> <<>>]
    /\ writes = <<>>
    /\ calls = <<>>
    /\ err = ""

Next ==
    \/ WorkspaceAdd
    \/ WorkspaceSelect
    \/ WorkspaceList
    \/ WorkspaceShow
    \/ Update
    \/ ServiceExec
    \/ Exit

\* the workspace registry, from an absent home document
Spec == Init /\ [][Next]_vars

InitSvc ==
    /\ manifest \in Manifests
    /\ \/ fileExists = FALSE /\ doc = EmptyHomeConfig
       \/ fileExists = TRUE /\ doc = OneWorkspace
    /\ cmd = [op |-> "none", args |-> <<>>]
    /\ writes = <<>>
    /\ calls = <<>>
    /\ err = ""

NextSvc ==
    \/ ServiceStart
    \/ ServiceStop
    \/ ServiceExec
    \/ Exit

\* the service commands, in a selected workspace
SpecSvc == InitSvc /\ [][NextSvc]_vars

(***************************************************************************)
(* Properties                                                              *)
(***************************************************************************)
DefaultDoc == HomeConfig("", defaultUpdateCommand, <<>>)

NamesUnique(wss) == \A i, j \in DOMAIN wss : wss[i].name = wss[j].name => i = j

\* the invariant of the home document
CurrentIsRegistered(hc) ==
    hc.current_workspace # "" =>
        \E i \in DOMAIN hc.workspaces : hc.workspaces[i].name = hc.current_workspace

\* the writes of the running command other than the initialisation write
\* (an add or select write always carries at least one workspace)
CommandWrites ==
    IF writes # <<>> /\ writes[1].data.workspaces = <<>> THEN Tail(writes) ELSE writes

\* the errors with which getWorkspaceConfig returns
ConfigErrors ==
    {"write failed", "read failed", "current workspace is not set",
     "current workspace is bad", "manifest not loaded"}

IsLifecycle(op) == op \in {"Start", "Stop", "Restart", "Destroy"}

\* C1: exec --svc=NAME with NAME a module of the manifest dispatches Exec to
\* the module's hosting service with the module's rendered exec path as the
\* working directory; the working directory is never left unset.
C1_ExecModuleByName ==
    (cmd.op = "Exec" /\ calls # <<>>) =>
        \A i \in DOMAIN manifest.modules :
            manifest.modules[i].name = cmd.args[1] =>
                /\ calls[1].svc = manifest.modules[i].hostedIn
                /\ calls[1].workingDir # <<>>
                /\ calls[1].workingDir = renderPath(manifest.modules[i].execPath)

\* C2 as stated: once a workspace is registered, adding another one never
\* changes currentWorkspace (taken here for registered names that are not
\* empty, where an unchanged currentWorkspace can be told from a selection).
C2_OnlyFirstAddSelects ==
    [][(cmd'.op = "workspace add" /\ doc.workspaces # <<>>
           /\ \A i \in DOMAIN doc.workspaces : doc.workspaces[i].name # "")
          => doc'.current_workspace = doc.current_workspace]_vars

\* C2 amended: an add changes currentWorkspace only when it was empty before
\* the add, and then to the workspace the add has just appended; when both
\* writes of such an add succeed the appended workspace is current.  An add
\* never changes a non-empty currentWorkspace.
C2_AddSelectsWhenNoneCurrent ==
    [][cmd'.op = "workspace add" =>
          /\ doc.current_workspace # "" =>
                 doc'.current_workspace = doc.current_workspace
          /\ doc'.current_workspace # doc.current_workspace =>
                 /\ doc.current_workspace = ""
                 /\ doc'.workspaces =
                        Append(doc.workspaces,
                               HomeConfigItem(cmd'.args[1], cmd'.args[2]))
                 /\ doc'.current_workspace = cmd'.args[1]
          /\ (err' = "" /\ doc.current_workspace = "") =>
                 doc'.current_workspace = cmd'.args[1]]_vars

\* a later workspace is added while one is current, and current stays
C2_Witness ==
    /\ cmd.op = "workspace add"
    /\ err = ""
    /\ Len(doc.workspaces) = 2
    /\ doc.workspaces[2].name = cmd.args[1]
    /\ doc.current_workspace = doc.workspaces[1].name
    /\ doc.current_workspace # ""

\* C3: adding a name that is already registered reports the name collision
\* (or the read error that prevented the check) and writes nothing, so the
\* persisted registry is as before; workspace names stay unique.
C3_AddDuplicate ==
    /\ [](fileExists => NamesUnique(doc.workspaces))
    /\ [][(cmd'.op = "workspace add" /\ Len(cmd'.args) = 2
              /\ \E i \in DOMAIN doc.workspaces :
                     doc.workspaces[i].name = cmd'.args[1])
             => /\ err' \in {"workspace already exists", "read failed"}
                /\ writes' = <<>>
                /\ doc' = doc
                /\ fileExists' = fileExists]_vars

C3_Witness ==
    /\ cmd.op = "workspace add"
    /\ err = "workspace already exists"
    /\ Len(doc.workspaces) = 2

\* C4: every document written, at each individual write, and the persisted
\* document keep a non-empty currentWorkspace registered in workspaces.
C4_CurrentRegistered ==
    /\ fileExists => CurrentIsRegistered(doc)
    /\ \A i \in DOMAIN writes : CurrentIsRegistered(writes[i].data)

\* an add from an absent document: three writes, the last one selecting; and
\* a select of the second workspace
C4_Witness ==
    \/ /\ cmd.op = "workspace add"
       /\ Len(writes) = 3
       /\ writes[3].ok
       /\ doc.current_workspace = cmd.args[1]
       /\ doc.current_workspace # ""
    \/ /\ cmd.op = "workspace select"
       /\ err = ""
       /\ Len(doc.workspaces) = 2
       /\ doc.current_workspace = doc.workspaces[2].name
       /\ doc.workspaces[1].name # ""

\* C5: adding the first workspace writes the document twice, in this order:
\* with the workspace appended and currentWorkspace empty, then with
\* currentWorkspace set to it.  If the first write fails there is no second;
\* if the second fails the command returns the error and the persisted
\* document is the one of the first write.
C5_FirstAddTwoWrites ==
    [][(cmd'.op = "workspace add" /\ doc.workspaces = <<>> /\ CommandWrites' # <<>>)
          => LET w == CommandWrites'
                 item == HomeConfigItem(cmd'.args[1], cmd'.args[2])
                 first == HomeConfig("", defaultUpdateCommand, <<item>>)
                 second == HomeConfig(cmd'.args[1], defaultUpdateCommand, <<item>>)
             IN  /\ w[1].data = first
                 /\ IF w[1].ok
                    THEN Len(w) = 2 /\ w[2].data = second
                    ELSE Len(w) = 1 /\ err' = "write failed"
                 /\ (Len(w) = 2 /\ w[2].ok) => (err' = "" /\ doc' = second)
                 /\ (Len(w) = 2 /\ ~w[2].ok) =>
                        /\ err' = "write failed"
                        /\ fileExists'
                        /\ doc' = first]_vars

\* the second write of the first add failed
C5_Witness ==
    /\ cmd.op = "workspace add"
    /\ Len(CommandWrites) = 2
    /\ ~CommandWrites[2].ok
    /\ err = "write failed"
    /\ Len(doc.workspaces) = 1
    /\ doc.current_workspace = ""

\* C6 as stated: select of an unregistered name fails and performs no write;
\* select of a registered name writes the document with currentWorkspace set
\* and the rest unchanged.
C6_SelectNoWrite ==
    [][(cmd'.op = "workspace select" /\ Len(cmd'.args) = 1)
          => IF \E i \in DOMAIN doc.workspaces : doc.workspaces[i].name = cmd'.args[1]
             THEN \/ err' = "read failed" /\ writes' = <<>>
                  \/ /\ Len(writes') = 1
                     /\ writes'[1].data = [doc EXCEPT !.current_workspace = cmd'.args[1]]
                     /\ writes'[1].ok => (err' = "" /\ doc' = writes'[1].data)
             ELSE /\ err' \in {"workspace is not defined", "read failed", "write failed"}
                  /\ writes' = <<>>]_vars

\* C6 amended: select of an unregistered name fails and performs no write
\* other than the initialisation step's default document when none exists;
\* the persisted registry is otherwise as before.  Select of a registered
\* name makes one write, of the document with currentWorkspace set to the
\* name and workspaces and update command unchanged.
C6_SelectWritesOnlyInit ==
    [][(cmd'.op = "workspace select" /\ Len(cmd'.args) = 1)
          => IF \E i \in DOMAIN doc.workspaces : doc.workspaces[i].name = cmd'.args[1]
             THEN \/ err' = "read failed" /\ writes' = <<>> /\ doc' = doc
                  \/ /\ Len(writes') = 1
                     /\ writes'[1].data = [doc EXCEPT !.current_workspace = cmd'.args[1]]
                     /\ IF writes'[1].ok THEN err' = "" /\ doc' = writes'[1].data
                        ELSE err' = "write failed" /\ doc' = doc
             ELSE /\ err' \in {"workspace is not defined", "read failed", "write failed"}
                  /\ IF fileExists
                     THEN writes' = <<>> /\ doc' = doc
                     ELSE /\ Len(writes') = 1
                          /\ writes'[1].data = DefaultDoc
                          /\ fileExists' => doc' = DefaultDoc]_vars

\* select of an unregistered name on an absent document: not found, after
\* the initialisation write
C6_Witness ==
    /\ cmd.op = "workspace select"
    /\ err = "workspace is not defined"
    /\ Len(writes) = 1
    /\ doc = DefaultDoc

\* C7: the initialisation step writes the default document only when no
\* document exists, and then first; on an existing document no command
\* writes the default document, so an existing document is never replaced
\* by the default one (and never disappears).
C7_InitOnlyWhenAbsent ==
    [][~Idle' =>
          /\ fileExists =>
                /\ fileExists'
                /\ \A i \in DOMAIN writes' : writes'[i].data # DefaultDoc
                /\ doc # DefaultDoc => doc' # DefaultDoc
          /\ ~fileExists =>
                /\ writes' # <<>>
                /\ writes'[1].data = DefaultDoc
                /\ \A i \in DOMAIN writes' : i > 1 => writes'[i].data # DefaultDoc]_vars

\* a command ran on an existing document with workspaces and wrote nothing
C7_Witness ==
    /\ cmd.op \in {"workspace show", "workspace list", "update", "Exec"}
    /\ fileExists
    /\ doc.workspaces # <<>>
    /\ writes = <<>>
    /\ err = ""

\* C8: stop --all and destroy --all call the method on the manifest's
\* services in declaration order and on nothing else: the calls are a prefix
\* of the declared list, cut only by a failed call, and empty when the
\* manifest has no service or the configuration did not load.
C8_AllInDeclarationOrder ==
    (cmd.op \in {"Stop", "Destroy"} /\ cmd.args # <<>> /\ cmd.args[1] = "--all") =>
        LET n == Len(manifest.services)
        IN  /\ Len(calls) <= n
            /\ \A i \in DOMAIN calls :
                  /\ calls[i].method = cmd.op
                  /\ calls[i].svc = manifest.services[i].name
                  /\ i < Len(calls) => calls[i].ok
            /\ err = "" => (Len(calls) = n /\ n > 0)
            /\ Len(calls) < n =>
                  \/ calls = <<>> /\ err \in ConfigErrors
                  \/ calls # <<>> /\ ~calls[Len(calls)].ok /\ err = "action failed"
            /\ n = 0 => (calls = <<>> /\ err # "")

\* stop --all from outside every service, on web, worker, db with
\* dependency edges among them
C8_Witness ==
    /\ cmd.op = "Stop"
    /\ cmd.args = <<"--all">>
    /\ cmd.cwd = <<"home">>
    /\ err = ""
    /\ Len(calls) = 3
    /\ calls[1].svc = "web" /\ calls[2].svc = "worker" /\ calls[3].svc = "db"

\* C9: with explicit names the method is called for the names in the order
\* given; the first unknown name or failed call ends the command, nothing is
\* called for a later name, and the calls made stay as they are.
C9_NamesInOrderFailFast ==
    (IsLifecycle(cmd.op) /\ cmd.args # <<>> /\ cmd.args[1] # "--all"
        /\ err \notin ConfigErrors) =>
        /\ Len(calls) <= Len(cmd.args)
        /\ \A i \in DOMAIN calls :
              /\ calls[i].method = cmd.op
              /\ calls[i].svc = cmd.args[i]
              /\ i < Len(calls) => calls[i].ok
        /\ err = "" <=> (Len(calls) = Len(cmd.args) /\ \A i \in DOMAIN calls : calls[i].ok)
        /\ Len(calls) < Len(cmd.args) =>
              \/ calls # <<>> /\ ~calls[Len(calls)].ok /\ err = "action failed"
              \/ /\ \A i \in DOMAIN calls : calls[i].ok
                 /\ \A j \in DOMAIN manifest.services :
                        manifest.services[j].name # cmd.args[Len(calls) + 1]
                 /\ err = "service not found"

\* three names given, the second call failed, the third was never made
C9_Witness ==
    /\ IsLifecycle(cmd.op)
    /\ Len(cmd.args) = 3
    /\ Len(calls) = 2
    /\ calls[1].ok
    /\ ~calls[2].ok
    /\ calls[1].svc = cmd.args[1] /\ calls[2].svc = cmd.args[2]
    /\ cmd.args[3] \in {"web", "worker", "db"}

\* C10 as stated: exec without --svc resolves service-first: when a service
\* matches the working directory, Exec goes to that service with no working
\* directory.
C10_ExecServiceFirst ==
    (cmd.op = "Exec" /\ cmd.args[1] = "" /\ calls # <<>>
        /\ FindServiceByPath(manifest, cmd.cwd).err = "") =>
        /\ calls[1].svc = FindServiceByPath(manifest, cmd.cwd).name
        /\ calls[1].workingDir = <<>>

\* C10 amended: exec without --svc resolves module-first: when a module
\* matches the working directory, Exec goes to the module's hosting service
\* with the module's rendered exec path as the working directory, also when
\* a service matches; only when no module matches does it go to the service
\* that matches, with no working directory.
C10_ExecModuleFirst ==
    (cmd.op = "Exec" /\ cmd.args[1] = "" /\ calls # <<>>) =>
        LET m == FindModuleByPath(manifest, cmd.cwd)
            s == FindServiceByPath(manifest, cmd.cwd)
        IN  IF m.err = ""
            THEN /\ calls[1].svc = m.mdl.hostedIn
                 /\ calls[1].workingDir = renderPath(m.mdl.execPath)
            ELSE /\ s.err = ""
                 /\ calls[1].svc = s.name
                 /\ calls[1].workingDir = <<>>

\* a directory inside the worker service that is the exec path of a module
\* hosted in web
C10_Witness ==
    /\ cmd.op = "Exec"
    /\ cmd.args[1] = ""
    /\ cmd.cwd = <<"srv", "worker", "bin">>
    /\ FindServiceByPath(manifest, cmd.cwd).name = "worker"
    /\ calls # <<>>
    /\ calls[1].svc = "web"
    /\ calls[1].workingDir = <<"srv", "worker", "bin">>

====
